---- MODULE Spec2Model ----
(***************************************************************************)
(* Model of backend/main.py: the detector pool (get_face_detector,         *)
(* _DetectorLease, _run_detection), the shared ThreadPoolExecutor and the  *)
(* streaming analyzer detect_video_id_endpoint.generate.                   *)
(***************************************************************************)
EXTENDS Integers, Sequences, FiniteSets, TLC

\* ------------------------------------------------------------------ sizes

\* DETECTOR_POOL_SIZE (main.py:388): max(2, cpu_count) unless overridden.
DETECTOR_POOL_SIZE == 2

\* Calls of detect_faces the event loop makes for /detect requests.
MaxDirectCalls == 2

\* Frames that /detect-batch requests hand to the executor.
MaxBatchFrames == 3

\* Calls of get_face_detector after the one of lifespan (SpecReinit only).
MaxLaterCalls == 1

\* Frames of the longest stored video.
MaxFrames == 4

\* Frames one analysis decodes before the model stops following what the
\* loop submits (the read loop need not end for sample_rate <= 0).
MaxReads == 5

\* Values of the query parameter sample_rate (main.py:781, an unconstrained int).
SampleRates == {-1, 0, 1, 2}

\* Stored videos: whether cv2.VideoCapture opens the file, the frame count
\* the container reports (CAP_PROP_FRAME_COUNT; 0 when it reports none, and
\* possibly wrong) and the number of frames that really decode.
Videos ==
    {[opens |-> FALSE, frameCount |-> 0, frames |-> 0]} \cup
    {[opens |-> TRUE, frameCount |-> f, frames |-> a] :
        f \in {0, 1, MaxFrames}, a \in {MaxFrames}} \cup
    {[opens |-> TRUE, frameCount |-> 1, frames |-> 1]}

\* The threads that run detections: the workers of the shared
\* ThreadPoolExecutor (main.py:397, max_workers = DETECTOR_POOL_SIZE) and the
\* event loop thread, on which the async /detect handler calls detect_faces
\* itself (main.py:904).
Workers == 1..DETECTOR_POOL_SIZE
RequestThreads == {DETECTOR_POOL_SIZE + 1}
Threads == Workers \cup RequestThreads

\* ------------------------------------------------------------------ state

VARIABLES
    pool,       \* _detector_pool: the free list, a sequence of detector ids
    sem,        \* value of _pool_semaphore (permits available)
    semGen,     \* which Semaphore object _pool_semaphore is (0: None)
    created,    \* number of detectors _create_detector has made so far
    started,    \* lifespan startup has finished: requests are served
    gfdPc,      \* position of the running get_face_detector call
    gfdRet,     \* detector returned by the last get_face_detector call (0: none)
    gfdCalls,   \* get_face_detector calls made after startup
    pc,         \* per thread: position inside _run_detection
    det,        \* per thread: self._det of its lease (0: none)
    out,        \* per thread: outcome of its current / last detection call
    calls,      \* per request thread: detect_faces calls started
    task,       \* per worker: the future it is running (0: none, or a batch frame)
    workq,      \* work queue of the ThreadPoolExecutor: future ids, FIFO
    fut,        \* futures of the analysis, in submission order
    batched,    \* frames of /detect-batch requests handed to the executor
    gpc,        \* position of the generator generate()
    video,      \* the opened file: [opens, frameCount, frames]
    sample_rate,\* query parameter sample_rate
    total_steps,
    completed_steps,
    target_idx,
    current_frame,
    capPos,     \* index of the frame cap.read() decodes next
    reads,      \* frames decoded so far
    pending_futures, \* sequence of <<idx, future id>>
    drainPos,   \* position of the final "for idx, fut in pending_futures"
    results,    \* accumulator of FrameDetection records
    stream,     \* records the generator has yielded, in order
    xpc,        \* position of the handler export_video
    xreq,       \* the export request and the stored video it names
    tracks_map, \* dict of the selected tracks, in insertion order
    frame_idx,
    xcapPos,    \* index of the frame the exporter's cap.read() decodes next
    chunk,      \* list of (idx, frame) waiting to be written
    mapState,   \* per item of the chunk: state of its pool.map task
    outFile,    \* frames written to the VideoWriter, in order
    xresp,      \* HTTP status of the response of export_video (0: none yet)
    xfile,      \* the output file on disk: "absent", "open" (writer open), "closed"
    xsend,      \* the FileResponses being sent, one record per answered export
    xcount,     \* export requests received for the video
    thread_pool,\* _thread_pool: the executor it names (0: None)
    tpCreated,  \* ThreadPoolExecutors created so far
    tpPc,       \* per caller of get_thread_pool: its position in the function
    tpRet,      \* per caller: the executor it was returned (0: none yet)
    fnArg,      \* arguments of the function under study (function specs)
    fnRet       \* what it returned

poolVars == <<pool, sem, semGen, created, started, gfdPc, gfdRet, gfdCalls>>
threadVars == <<pc, det, out, calls, task>>
execVars == <<workq, fut, batched>>
genVars == <<gpc, video, sample_rate, total_steps, completed_steps, target_idx,
             current_frame, capPos, reads, pending_futures, drainPos, results,
             stream>>
expVars == <<xpc, xreq, tracks_map, frame_idx, xcapPos, chunk, mapState,
             outFile, xresp, xfile, xsend, xcount>>
fnVars == <<fnArg, fnRet>>
tpVars == <<thread_pool, tpCreated, tpPc, tpRet>>
vars == <<thread_pool, tpCreated, tpPc, tpRet, xpc, xreq, tracks_map, frame_idx, xcapPos, chunk, mapState,
          outFile, xresp, xfile, xsend, xcount, fnArg, fnRet, pool, sem, semGen, created, started, gfdPc, gfdRet, gfdCalls,
          pc, det, out, calls, task, workq, fut, batched,
          gpc, video, sample_rate, total_steps, completed_steps, target_idx,
          current_frame, capPos, reads, pending_futures, drainPos, results,
          stream>>

\* ------------------------------------------------------------------ helpers

RECURSIVE SeqToSet(_)
SeqToSet(s) == IF s = <<>> THEN {} ELSE {Head(s)} \cup SeqToSet(Tail(s))

\* ------------------------------------------------------------------ pool

\* main.py:441-442: DETECTOR_POOL_SIZE fresh detectors and a semaphore of
\* DETECTOR_POOL_SIZE permits. base is the number of detectors made before.
NewPoolOneExtra(base) ==
    [pool |-> [i \in 1..(DETECTOR_POOL_SIZE + 1) |-> base + i],
     sem  |-> DETECTOR_POOL_SIZE + 1]

NewPool(base) ==
    [pool |-> [i \in 1..DETECTOR_POOL_SIZE |-> base + i],
     sem  |-> DETECTOR_POOL_SIZE]

\* main.py:439: "if not _detector_pool" -- the pool is (re)built whenever the
\* free list is empty.
NeedsInit(p) == p = <<>>

\* main.py:438-442: the locked part of get_face_detector.
GfdLockedBody ==
    /\ gfdPc = "idle"
    /\ IF NeedsInit(pool)
         THEN /\ pool' = NewPool(created).pool
              /\ sem' = NewPool(created).sem
              /\ semGen' = semGen + 1
              /\ created' = created + Len(NewPool(created).pool)
         ELSE UNCHANGED <<pool, sem, semGen, created>>
    /\ gfdPc' = "return"

\* lifespan (main.py:110): the one call the server makes, before it serves.
Startup ==
    /\ ~started
    /\ GfdLockedBody
    /\ UNCHANGED <<started, gfdRet, gfdCalls, threadVars, execVars, genVars, expVars, tpVars, fnVars>>

\* A later call of get_face_detector, concurrent with detection calls.
LaterCall ==
    /\ started
    /\ gfdCalls < MaxLaterCalls
    /\ GfdLockedBody
    /\ gfdCalls' = gfdCalls + 1
    /\ UNCHANGED <<started, gfdRet, threadVars, execVars, genVars, expVars, tpVars, fnVars>>

\* main.py:444: "return _detector_pool[0]", read outside the lock; an empty
\* list raises IndexError (no detector is returned).
GfdReturn ==
    /\ gfdPc = "return"
    /\ gfdRet' = IF pool = <<>> THEN 0 ELSE pool[1]
    /\ gfdPc' = "idle"
    /\ started' = TRUE
    /\ UNCHANGED <<pool, sem, semGen, created, gfdCalls, threadVars, execVars, genVars, expVars, tpVars, fnVars>>

\* ------------------------------------------------------------------ detection

\* What the detector finds in the frame of index idx of the stored video: a
\* list of faces (here the face is named by the frame it was found in), empty
\* for the frames that show nobody.
FrameFaces(idx) == IF idx % 3 = 1 THEN <<>> ELSE <<idx>>

NoOutcome == [kind |-> "none", faces |-> <<>>]
Raised    == [kind |-> "raised", faces |-> <<>>]
Ok(faces) == [kind |-> "ok", faces |-> faces]

\* main.py:450: _pool_semaphore.acquire() blocks while no permit is left.
SemCanAcquireNoWait(s) == TRUE

SemCanAcquire(s) == s > 0

\* main.py:452: _detector_pool.pop() takes the last element of the free list.
PoolPop(p) == [det |-> p[Len(p)], rest |-> SubSeq(p, 1, Len(p) - 1)]

\* main.py:457: _detector_pool.append(self._det)
PoolAppendDrop(p, d) == p

PoolAppend(p, d) == Append(p, d)

\* main.py:478-480: the with statement runs __exit__ on both ways out of its
\* body, a normal end and an exception from setInputSize or detect.
AfterBodyNoExitOnRaise(outcome) == IF outcome.kind = "raised" THEN "return" ELSE "append"

AfterBody(outcome) == "append"

\* main.py:904 (detect_endpoint): a request thread calls detect_faces.
DirectCall(t) ==
    /\ t \in RequestThreads
    /\ started
    /\ pc[t] = "idle"
    /\ calls[t] < MaxDirectCalls
    /\ calls' = [calls EXCEPT ![t] = @ + 1]
    /\ pc' = [pc EXCEPT ![t] = "acquire"]
    /\ out' = [out EXCEPT ![t] = NoOutcome]
    /\ UNCHANGED <<poolVars, det, task, execVars, genVars, expVars, tpVars, fnVars>>

\* The work item of a /detect-batch frame in the executor's queue (the items
\* of an analysis are numbered from 1, as its futures are).
BatchItem == 0

\* main.py:947-950 (detect_batch_endpoint, on the event loop): one frame of a
\* batch is handed to the shared executor.
BatchSubmit ==
    /\ started
    /\ batched < MaxBatchFrames
    /\ \A t \in RequestThreads : pc[t] = "idle"
    /\ batched' = batched + 1
    /\ workq' = Append(workq, BatchItem)
    /\ UNCHANGED <<expVars, tpVars, fnVars, poolVars, threadVars, fut, genVars, expVars, tpVars, fnVars>>

\* ThreadPoolExecutor worker: takes the oldest queued work item and runs
\* detect_faces(frame) (main.py:832 and 499-501, or 936 for a batch frame).
WorkerTake(t) ==
    /\ t \in Workers
    /\ pc[t] = "idle"
    /\ workq # <<>>
    /\ task' = [task EXCEPT ![t] = Head(workq)]
    /\ workq' = Tail(workq)
    /\ fut' = IF Head(workq) = BatchItem THEN fut
               ELSE [fut EXCEPT ![Head(workq)].state = "running"]
    /\ pc' = [pc EXCEPT ![t] = "acquire"]
    /\ out' = [out EXCEPT ![t] = NoOutcome]
    /\ UNCHANGED <<poolVars, det, calls, batched, genVars, expVars, tpVars, fnVars>>

\* _DetectorLease.__enter__, main.py:450
Acquire(t) ==
    /\ pc[t] = "acquire"
    /\ SemCanAcquire(sem)
    /\ sem' = sem - 1
    /\ pc' = [pc EXCEPT ![t] = "pop"]
    /\ UNCHANGED <<pool, semGen, created, started, gfdPc, gfdRet, gfdCalls,
                   det, out, calls, task, execVars, genVars, expVars, tpVars, fnVars>>

\* _DetectorLease.__enter__, main.py:451-453. pop() of an empty list raises
\* IndexError out of __enter__: __exit__ never runs, the permit stays taken.
Pop(t) ==
    /\ pc[t] = "pop"
    /\ IF pool = <<>>
         THEN /\ pc' = [pc EXCEPT ![t] = "return"]
              /\ out' = [out EXCEPT ![t] = Raised]
              /\ UNCHANGED <<pool, det>>
         ELSE /\ det' = [det EXCEPT ![t] = PoolPop(pool).det]
              /\ pool' = PoolPop(pool).rest
              /\ pc' = [pc EXCEPT ![t] = "detect"]
              /\ UNCHANGED out
    /\ UNCHANGED <<sem, semGen, created, started, gfdPc, gfdRet, gfdCalls,
                   calls, task, execVars, genVars, expVars, tpVars, fnVars>>

\* main.py:479-480: setInputSize and detect on the leased detector; either
\* may raise. A worker detects on the frame it was submitted with.
Detect(t) ==
    /\ pc[t] = "detect"
    /\ \E o \in {Raised,
                  IF t \in Workers /\ task[t] # BatchItem
                    THEN Ok(FrameFaces(fut[task[t]].frame))
                    ELSE Ok(<<>>)} :
         /\ out' = [out EXCEPT ![t] = o]
         /\ pc' = [pc EXCEPT ![t] = AfterBody(o)]
    /\ UNCHANGED <<poolVars, det, calls, task, execVars, genVars, expVars, tpVars, fnVars>>

\* _DetectorLease.__exit__, main.py:456-457
ExitAppend(t) ==
    /\ pc[t] = "append"
    /\ pool' = PoolAppend(pool, det[t])
    /\ det' = [det EXCEPT ![t] = 0]
    /\ pc' = [pc EXCEPT ![t] = "release"]
    /\ UNCHANGED <<sem, semGen, created, started, gfdPc, gfdRet, gfdCalls,
                   out, calls, task, execVars, genVars, expVars, tpVars, fnVars>>

\* _DetectorLease.__exit__, main.py:458: releases whichever semaphore the
\* global names now.
ExitRelease(t) ==
    /\ pc[t] = "release"
    /\ sem' = sem + 1
    /\ pc' = [pc EXCEPT ![t] = "return"]
    /\ UNCHANGED <<pool, semGen, created, started, gfdPc, gfdRet, gfdCalls,
                   det, out, calls, task, execVars, genVars, expVars, tpVars, fnVars>>

\* main.py:482-496 and the executor: the call returns its faces or lets the
\* exception through; a worker stores either in the future of its work item.
Return(t) ==
    /\ pc[t] = "return"
    /\ pc' = [pc EXCEPT ![t] = "idle"]
    /\ IF t \in Workers /\ task[t] # BatchItem
         THEN /\ fut' = [fut EXCEPT ![task[t]].state = out[t].kind,
                                    ![task[t]].faces = out[t].faces]
              /\ task' = [task EXCEPT ![t] = BatchItem]
              /\ out' = [out EXCEPT ![t] = NoOutcome]
         ELSE UNCHANGED <<fut, task, out>>
    /\ UNCHANGED <<poolVars, det, calls, workq, batched, genVars, expVars, tpVars, fnVars>>

\* ------------------------------------------------------------------ analyzer

\* Python's a // b (floor division), b # 0.
PyFloorDiv(a, b) == IF b > 0 THEN a \div b ELSE (-a) \div (-b)

\* main.py:801
TotalSteps(total_frames, rate) ==
    IF total_frames > 0 THEN PyFloorDiv(total_frames + rate - 1, rate) ELSE 0

\* main.py:809
MAX_PENDING_DETECTIONS == DETECTOR_POOL_SIZE * 2

\* round((completed / total) * 100, 1), in tenths of a percent: the nearest
\* tenth, a tie going to the even one. total > 0.
Round1(completed, total) ==
    LET n == completed * 1000
        q == n \div total
        r == n % total
    IN  IF 2 * r > total THEN q + 1
        ELSE IF 2 * r = total THEN (IF q % 2 = 0 THEN q ELSE q + 1)
        ELSE q

Min(a, b) == IF a < b THEN a ELSE b

\* The record of the stream that has no "type" key.
NoType == "<absent>"

ProgressRecord(p) == [type |-> "progress", progress |-> p, results |-> <<>>]
ResultsRecord(r)  == [type |-> "results", progress |-> 0, results |-> r]
\* main.py:880
ErrorRecord       == [type |-> "error", progress |-> 0, results |-> <<>>]
\* main.py:793: {"error": "Could not open video file"}
OpenErrorRecord   == [type |-> NoType, progress |-> 0, results |-> <<>>]

\* main.py:851: the progress value of the drain inside the read loop.
LoopProgress(completed, total) == Round1(completed, total)

\* main.py:870: the progress value of the final drain.
FinalProgress(completed, total) == Min(1000, Round1(completed, total))

\* main.py:840-847 / 859-866: what draining one future appends to results.
DrainedWhatever(res, idx, f) == Append(res, [frameIndex |-> idx, faces |-> f.faces])

Drained(res, idx, f) ==
    IF f.state = "ok" /\ f.faces # <<>>
      THEN Append(res, [frameIndex |-> idx, faces |-> f.faces])
      ELSE res

FutureDone(f) == f.state \in {"ok", "raised"}

\* main.py:878: "except Exception" catches what derives from Exception (the
\* ZeroDivisionError of line 801), not the GeneratorExit that close() raises
\* at the yield the generator is suspended at.
HandlerCatchesAll(exc) == TRUE

HandlerCatches(exc) == exc \in {"ZeroDivisionError"}

\* main.py:778-789: a request for /detect-video/{video_id}?sample_rate=K; the
\* StreamingResponse holds the generator, not yet started.
Request ==
    /\ started
    /\ gpc = "none"
    /\ \E v \in Videos, r \in SampleRates :
         /\ video' = v
         /\ sample_rate' = r
    /\ gpc' = "start"
    /\ UNCHANGED <<expVars, tpVars, fnVars, poolVars, threadVars, execVars, total_steps, completed_steps,
                   target_idx, current_frame, capPos, reads, pending_futures,
                   drainPos, results, stream>>

\* main.py:790-813, entered by the consumer's first next().
GenOpen ==
    /\ gpc = "start"
    /\ IF ~video.opens
         THEN /\ stream' = Append(stream, OpenErrorRecord)
              /\ gpc' = "y_open_err"
              /\ UNCHANGED total_steps
         ELSE IF video.frameCount > 0 /\ sample_rate = 0
         THEN \* ZeroDivisionError at line 801
              /\ IF HandlerCatches("ZeroDivisionError")
                   THEN /\ stream' = Append(stream, ErrorRecord)
                        /\ gpc' = "y_error"
                   ELSE /\ gpc' = "done"
                        /\ UNCHANGED stream
              /\ UNCHANGED total_steps
         ELSE /\ total_steps' = TotalSteps(video.frameCount, sample_rate)
              /\ gpc' = "loop"
              /\ UNCHANGED stream
    /\ UNCHANGED <<expVars, tpVars, fnVars, poolVars, threadVars, execVars, video, sample_rate,
                   completed_steps, target_idx, current_frame, capPos, reads,
                   pending_futures, drainPos, results>>

\* cap.set(cv2.CAP_PROP_POS_FRAMES, idx): the positions the decoder may be at
\* afterwards, -1 standing for a refused seek (set returns False). A
\* non-negative index is taken as it is; what a negative index does is the
\* backend's choice: refused, or clamped to the first frame.
SeekOutcomes(idx) == IF idx >= 0 THEN {idx} ELSE {-1, 0}

\* main.py:815-833: one pass of the read loop up to the submission. Once
\* MaxReads frames are decoded the loop still runs as the code does, but the
\* model no longer adds what it decodes to fut and pending_futures.
GenLoop ==
    /\ gpc = "loop"
    /\ IF video.frameCount > 0 /\ target_idx >= video.frameCount
         THEN /\ gpc' = "final"
              /\ UNCHANGED <<capPos, current_frame, reads, pending_futures, workq, fut>>
         ELSE \E p \in (IF target_idx # current_frame
                           THEN SeekOutcomes(target_idx) ELSE {capPos}) :
              IF p < 0 \/ p >= video.frames
                THEN \* seek refused, or cap.read() returns ret = False
                     /\ gpc' = "final"
                     /\ capPos' = (IF p < 0 THEN capPos ELSE p)
                     /\ UNCHANGED <<current_frame, reads, pending_futures, workq, fut>>
                ELSE /\ capPos' = p + 1
                     /\ current_frame' = target_idx + 1
                     /\ gpc' = "drain"
                     /\ IF reads < MaxReads
                          THEN /\ reads' = reads + 1
                               /\ fut' = Append(fut, [idx |-> target_idx, frame |-> p,
                                                      state |-> "queued", faces |-> <<>>])
                               /\ workq' = Append(workq, Len(fut) + 1)
                               /\ pending_futures' =
                                      Append(pending_futures, <<target_idx, Len(fut) + 1>>)
                          ELSE \* the pass goes on, its frame is not followed
                               UNCHANGED <<reads, pending_futures, workq, fut>>
    /\ UNCHANGED <<expVars, tpVars, fnVars, poolVars, threadVars, batched, video, sample_rate, total_steps,
                   completed_steps, target_idx, drainPos, results, stream>>

\* main.py:837: "while len(pending_futures) >= MAX_PENDING_DETECTIONS"
NeedsDrainLate(n) == n > MAX_PENDING_DETECTIONS

NeedsDrain(n) == n >= MAX_PENDING_DETECTIONS

\* main.py:854: "target_idx += sample_rate"
NextTargetByOne(idx, rate) == idx + 1

NextTarget(idx, rate) == idx + rate

\* main.py:837-854: the drain inside the read loop; fut.result() waits for
\* the oldest future. Resumed by next() after each yielded progress record.
\* Once MaxReads frames are decoded target_idx is no longer followed.
GenDrain ==
    /\ gpc \in {"drain", "y_loop"}
    /\ IF NeedsDrain(Len(pending_futures))
         THEN LET idx == pending_futures[1][1]
                  f   == fut[pending_futures[1][2]]
              IN  /\ FutureDone(f)
                  /\ pending_futures' = Tail(pending_futures)
                  /\ results' = Drained(results, idx, f)
                  /\ completed_steps' = completed_steps + 1
                  /\ IF total_steps > 0
                       THEN /\ stream' = Append(stream, ProgressRecord(
                                   LoopProgress(completed_steps + 1, total_steps)))
                            /\ gpc' = "y_loop"
                       ELSE /\ gpc' = "drain"
                            /\ UNCHANGED stream
                  /\ UNCHANGED target_idx
         ELSE /\ target_idx' = IF reads < MaxReads
                                  THEN NextTarget(target_idx, sample_rate)
                                  ELSE target_idx
              /\ gpc' = "loop"
              /\ UNCHANGED <<pending_futures, results, completed_steps, stream>>
    /\ UNCHANGED <<expVars, tpVars, fnVars, poolVars, threadVars, execVars, video, sample_rate, total_steps,
                   current_frame, capPos, reads, drainPos>>

\* main.py:857-876: the final drain, then the results record.
GenFinal ==
    /\ gpc \in {"final", "y_final"}
    /\ IF drainPos <= Len(pending_futures)
         THEN LET idx == pending_futures[drainPos][1]
                  f   == fut[pending_futures[drainPos][2]]
              IN  /\ FutureDone(f)
                  /\ drainPos' = drainPos + 1
                  /\ results' = Drained(results, idx, f)
                  /\ completed_steps' = completed_steps + 1
                  /\ IF total_steps > 0
                       THEN /\ stream' = Append(stream, ProgressRecord(
                                   FinalProgress(completed_steps + 1, total_steps)))
                            /\ gpc' = "y_final"
                       ELSE /\ gpc' = "final"
                            /\ UNCHANGED stream
         ELSE /\ stream' = Append(stream, ResultsRecord(results))
              /\ gpc' = "y_results"
              /\ UNCHANGED <<drainPos, results, completed_steps>>
    /\ UNCHANGED <<expVars, tpVars, fnVars, poolVars, threadVars, execVars, video, sample_rate, total_steps,
                   target_idx, current_frame, capPos, reads, pending_futures>>

\* The consumer's next() after the last record: the generator returns
\* (main.py:794, the end of the try at 876, the end of the handler at 880).
GenEnd ==
    /\ gpc \in {"y_results", "y_error", "y_open_err"}
    /\ gpc' = "done"
    /\ UNCHANGED <<expVars, tpVars, fnVars, poolVars, threadVars, execVars, video, sample_rate, total_steps,
                   completed_steps, target_idx, current_frame, capPos, reads,
                   pending_futures, drainPos, results, stream>>

\* The consumer disconnects: the generator is closed where it is suspended.
\* Not yet started, nothing runs; at a yield inside the try (main.py:793, 852,
\* 871, 876) GeneratorExit is raised there, and the handler of line 878 would
\* yield an error record if it caught it; at the yield of the handler itself
\* (line 880) nothing is left to run.
GenClose ==
    /\ gpc \in {"start", "y_loop", "y_final", "y_results", "y_error", "y_open_err"}
    /\ gpc' = "closed"
    /\ stream' = IF gpc \notin {"start", "y_error"} /\ HandlerCatches("GeneratorExit")
                   THEN Append(stream, ErrorRecord)
                   ELSE stream
    /\ UNCHANGED <<expVars, tpVars, fnVars, poolVars, threadVars, execVars, video, sample_rate, total_steps,
                   completed_steps, target_idx, current_frame, capPos, reads,
                   pending_futures, drainPos, results>>

\* ------------------------------------------------------------------ get_thread_pool

\* Threads that call get_thread_pool at the same time: the threads that run
\* generate() for /detect-video streams (main.py:805) and the event loop
\* (main.py:677, 948).
MaxPoolCallers == 3

PoolCallers == 1..MaxPoolCallers

\* A request makes the thread c call get_thread_pool.
TpCall(c) ==
    /\ tpPc[c] = "idle"
    /\ tpPc' = [tpPc EXCEPT ![c] = "test"]
    /\ UNCHANGED <<thread_pool, tpCreated, tpRet, expVars, fnVars, poolVars,
                   threadVars, execVars, genVars>>

\* main.py:396: "if _thread_pool is None", read without a lock.
TpTest(c) ==
    /\ tpPc[c] = "test"
    /\ tpPc' = [tpPc EXCEPT ![c] = IF thread_pool = 0 THEN "create" ELSE "return"]
    /\ UNCHANGED <<thread_pool, tpCreated, tpRet, expVars, fnVars, poolVars,
                   threadVars, execVars, genVars>>

\* main.py:397: a new ThreadPoolExecutor is made and stored in the global.
TpCreate(c) ==
    /\ tpPc[c] = "create"
    /\ tpCreated' = tpCreated + 1
    /\ thread_pool' = tpCreated + 1
    /\ tpPc' = [tpPc EXCEPT ![c] = "return"]
    /\ UNCHANGED <<tpRet, expVars, fnVars, poolVars, threadVars, execVars, genVars>>

\* main.py:399: "return _thread_pool"
TpReturn(c) ==
    /\ tpPc[c] = "return"
    /\ tpRet' = [tpRet EXCEPT ![c] = thread_pool]
    /\ tpPc' = [tpPc EXCEPT ![c] = "done"]
    /\ UNCHANGED <<thread_pool, tpCreated, expVars, fnVars, poolVars, threadVars,
                   execVars, genVars>>

\* ------------------------------------------------------------------ interpolator

\* main.py:738
max_gap == 20

\* main.py:741: the local "padding" of find_detection_for_frame.
edge_padding == 0

\* Numbers of a detection are fractions: bbox[i] / den and score / den. The
\* frames a request carries have den = 1; an interpolated detection has
\* den = gap (main.py:758, t = (frame_idx - prev) / gap).
NoDetection == [frameIndex |-> -1, bbox |-> <<>>, score |-> 0, den |-> 0]

Abs(a) == IF a < 0 THEN -a ELSE a

\* main.py:729: "if f["frameIndex"] == frame_idx"
IsHitNever(f, idx) == FALSE

IsHit(f, idx) == f.frameIndex = idx

\* main.py:725-735: the scan for the interval that holds frame_idx. It stops
\* at an exact hit and at the first frame whose index is larger.
RECURSIVE ScanFrames(_, _, _, _)
ScanFrames(frames, k, idx, prev_f) ==
    IF k > Len(frames)
      THEN [hit |-> NoDetection, prev_f |-> prev_f, next_f |-> NoDetection]
    ELSE IF IsHit(frames[k], idx)
      THEN [hit |-> frames[k], prev_f |-> prev_f, next_f |-> NoDetection]
    ELSE IF frames[k].frameIndex < idx
      THEN ScanFrames(frames, k + 1, idx, frames[k])
    ELSE [hit |-> NoDetection, prev_f |-> prev_f, next_f |-> frames[k]]

\* main.py:758-773: linear interpolation between prev_f and next_f, exact:
\* p + (n - p) * k / gap = (p * gap + (n - p) * k) / gap.
InterpolateNearest(prev_f, next_f, idx) == [prev_f EXCEPT !.frameIndex = idx]

Interpolate(prev_f, next_f, idx) ==
    LET gap == next_f.frameIndex - prev_f.frameIndex
        k   == idx - prev_f.frameIndex
    IN [frameIndex |-> idx,
        bbox  |-> [i \in 1..4 |->
                      prev_f.bbox[i] * gap + (next_f.bbox[i] - prev_f.bbox[i]) * k],
        score |-> prev_f.score * (gap - k) + next_f.score * k,
        den   |-> gap]

\* main.py:750: "if gap > max_gap"
GapTooLargeNever(gap) == FALSE

GapTooLarge(gap) == gap > max_gap

\* main.py:744, 746: "abs(frame_idx - f["frameIndex"]) <= padding"
WithinEdgeOne(dist) == dist <= 1

WithinEdge(dist) == dist <= edge_padding

\* main.py:718-775
find_detection_for_frame(frames, idx, rate) ==
    IF frames = <<>> THEN NoDetection
    ELSE
      LET s == ScanFrames(frames, 1, idx, NoDetection)
          prev_f == s.prev_f
          next_f == s.next_f
      IN IF s.hit # NoDetection THEN s.hit
         ELSE IF prev_f # NoDetection /\ next_f = NoDetection
           THEN IF WithinEdge(Abs(idx - prev_f.frameIndex))
                  THEN prev_f ELSE NoDetection
         ELSE IF next_f # NoDetection /\ prev_f = NoDetection
           THEN IF WithinEdge(Abs(idx - next_f.frameIndex))
                  THEN next_f ELSE NoDetection
         ELSE IF prev_f # NoDetection /\ next_f # NoDetection
           THEN IF GapTooLarge(next_f.frameIndex - prev_f.frameIndex)
                  THEN IF idx = prev_f.frameIndex THEN prev_f
                       ELSE IF idx = next_f.frameIndex THEN next_f
                       ELSE NoDetection
                  ELSE Interpolate(prev_f, next_f, idx)
         ELSE NoDetection

\* ------------------------------------------------------------------ blur_frame

\* export_request.padding is a float in [0, 2]; the model holds it as a
\* number of PadDen-ths.
PadDen == 2

Max(a, b) == IF a > b THEN a ELSE b

\* Python's int() of the float a / b (b > 0): truncation towards zero.
TruncDiv(a, b) == IF a >= 0 THEN a \div b ELSE -((-a) \div b)

\* main.py:663-664: min(int(...), width - x)
ClipExtentNone(extent, limit) == extent

ClipExtent(extent, limit) == Min(extent, limit)

\* main.py:658-664: the rectangle blur_frame computes for a detection.
RegionOf(d, padding, width, height) ==
    LET ox == d.bbox[1]
        oy == d.bbox[2]
        ow == d.bbox[3]
        oh == d.bbox[4]
        q  == d.den * PadDen
        x  == Max(0, TruncDiv(ox * PadDen - ow * padding, q))
        y  == Max(0, TruncDiv(oy * PadDen - oh * padding, q))
        w  == ClipExtent(TruncDiv(ow * (PadDen + padding * 2), q), width - x)
        h  == ClipExtent(TruncDiv(oh * (PadDen + padding * 2), q), height - y)
    IN [x |-> x, y |-> y, w |-> w, h |-> h]

\* main.py:665-674: the rectangle is pixelated when w > 0 and h > 0; the
\* frame remembers the rectangles pixelated in it, in order, with the size of
\* the reduced image (main.py:669).
Pixelate(frame, r, blur_amt) ==
    IF r.w > 0 /\ r.h > 0
      THEN [frame EXCEPT !.regions =
              Append(@, [x |-> r.x, y |-> r.y, w |-> r.w, h |-> r.h,
                         sw |-> Max(1, r.w \div blur_amt),
                         sh |-> Max(1, r.h \div blur_amt)])]
      ELSE frame

\* main.py:654-674: the loop of blur_frame over tracks_map.items(), from its
\* k-th entry on. "ox, oy, ow, oh = bbox" raises for a bbox that has not four
\* elements.
RECURSIVE BlurTracks(_, _, _, _, _)
BlurTracks(tmap, k, idx, frame, req) ==
    IF k > Len(tmap) THEN [raised |-> FALSE, frame |-> frame]
    ELSE
      LET d == find_detection_for_frame(tmap[k].track.frames, idx, req.sampleRate)
      IN IF d = NoDetection THEN BlurTracks(tmap, k + 1, idx, frame, req)
         ELSE IF Len(d.bbox) # 4 THEN [raised |-> TRUE, frame |-> frame]
         ELSE BlurTracks(tmap, k + 1, idx,
                         Pixelate(frame,
                                  RegionOf(d, req.padding, req.video.width,
                                           req.video.height),
                                  req.blurAmount),
                         req)

\* main.py:652-675
blur_frame(item, tmap, req) ==
    LET b == BlurTracks(tmap, 1, item.idx, item.frame, req)
    IN [idx |-> item.idx, frame |-> b.frame, raised |-> b.raised]

\* main.py:639: "if t.id in export_request.selectedTrackIds"
IsSelectedAny(t, selected) == TRUE

IsSelected(t, selected) == t.id \in selected

\* main.py:639: the dict comprehension. A dict keeps the position of the
\* first insertion of a key and the value of the last.
RECURSIVE DictOf(_, _)
DictOf(tracks, selected) ==
    IF tracks = <<>> THEN <<>>
    ELSE
      LET n == Len(tracks)
          d == DictOf(SubSeq(tracks, 1, n - 1), selected)
          t == tracks[n]
      IN IF ~IsSelected(t, selected) THEN d
         ELSE IF \E i \in 1..Len(d) : d[i].id = t.id
           THEN [i \in 1..Len(d) |->
                   IF d[i].id = t.id THEN [id |-> t.id, track |-> t] ELSE d[i]]
         ELSE Append(d, [id |-> t.id, track |-> t])

\* ------------------------------------------------------------------ exporter

\* main.py:650
chunk_size == DETECTOR_POOL_SIZE * 4

\* Frames of the longest video exported.
MaxExportFrames == 10

\* Export requests received for one video (SpecRace only).
MaxExports == 2

\* Width and height of the stored videos.
FrameWidth == 10
FrameHeight == 8

StoredBox(i, box) == [frameIndex |-> i, bbox |-> box, score |-> 90, den |-> 1]

\* Tracks of the export requests: two tracks of different ids, a second
\* track of id 1, two tracks whose detection has a malformed bbox (in the
\* first chunk, in the second), a track without frames.
TrackA  == [id |-> 1, frames |-> <<StoredBox(0, <<1, 1, 3, 3>>), StoredBox(2, <<3, 2, 3, 3>>)>>]
TrackB  == [id |-> 2, frames |-> <<StoredBox(1, <<5, 4, 2, 2>>), StoredBox(2, <<6, 4, 2, 2>>)>>]
TrackA2 == [id |-> 1, frames |-> <<StoredBox(1, <<0, 5, 2, 2>>)>>]
TrackM  == [id |-> 3, frames |-> <<StoredBox(1, <<1, 2>>)>>]
TrackM2 == [id |-> 5, frames |-> <<StoredBox(chunk_size, <<1, 2>>)>>]
TrackE  == [id |-> 4, frames |-> <<>>]

ExportLengths == {0, 3, chunk_size, MaxExportFrames}

\* The bodies of POST /export/{video_id} (ExportRequest, main.py:306-315) and
\* the stored video each names; a video that does not exist has no frames.
ExportRequests ==
    {[video |-> [exists |-> TRUE, frames |-> n, width |-> FrameWidth,
                 height |-> FrameHeight],
      tracks |-> ts.tracks, selectedTrackIds |-> ts.selected,
      padding |-> p, blurAmount |-> 2, sampleRate |-> 1] :
        n \in ExportLengths, p \in {0, 1},
        ts \in {[tracks |-> <<TrackA, TrackB>>, selected |-> {}],
                [tracks |-> <<TrackA, TrackB>>, selected |-> {1}],
                [tracks |-> <<TrackA, TrackB>>, selected |-> {1, 2}],
                [tracks |-> <<TrackA, TrackA2>>, selected |-> {1}],
                [tracks |-> <<TrackA, TrackM>>, selected |-> {1}],
                [tracks |-> <<TrackA, TrackM>>, selected |-> {1, 3}],
                [tracks |-> <<TrackA, TrackM2>>, selected |-> {1, 5}],
                [tracks |-> <<TrackE>>, selected |-> {4}]}}
    \cup
    {[video |-> [exists |-> FALSE, frames |-> 0, width |-> 0, height |-> 0],
      tracks |-> <<TrackA>>, selectedTrackIds |-> {1},
      padding |-> 0, blurAmount |-> 2, sampleRate |-> 1]}

\* main.py:631-678: the handler up to its read loop, for the request r. The
\* VideoWriter (main.py:647) creates the output file, or empties the one a
\* former export of the video has left at the same path (main.py:636).
ExportBegin(r) ==
    /\ xreq' = r
    /\ xcount' = xcount + 1
    /\ IF ~r.video.exists
         THEN /\ xpc' = "done"
              /\ xresp' = 404
              /\ UNCHANGED <<tracks_map, outFile, xfile>>
         ELSE /\ xpc' = "read"
              /\ xresp' = 0
              /\ tracks_map' = DictOf(r.tracks, r.selectedTrackIds)
              /\ outFile' = <<>>
              /\ xfile' = "open"
    /\ frame_idx' = 0
    /\ xcapPos' = 0
    /\ chunk' = <<>>
    /\ mapState' = <<>>
    /\ UNCHANGED <<xsend, tpVars, fnVars, poolVars, threadVars, execVars, genVars>>

\* The first export request for the video.
ExportStart ==
    /\ xpc = "none"
    /\ \E r \in ExportRequests : ExportBegin(r)

\* A further export request for the same video, served once the handler of
\* the former one has returned (export_video is an async def without await:
\* it holds the event loop from its first line to its return).
ExportAgain ==
    /\ xpc \in {"done", "failed"}
    /\ xcount < MaxExports
    /\ \E r \in ExportRequests :
         /\ r.video = xreq.video
         /\ ExportBegin(r)

\* main.py:687: "if len(chunk) >= chunk_size"
ChunkFull(c) == Len(c) >= chunk_size

\* main.py:695: "if chunk"
NeedsFlushNever(c) == FALSE

NeedsFlush(c) == c # <<>>

\* main.py:688, 696: pool.map(blur_frame, chunk) submits one task per item.
Submitted(c) == [i \in 1..Len(c) |-> "queued"]

\* main.py:681-687, 695: one pass of the read loop up to the pool.map call,
\* or the break and the test for a last partial chunk.
ExportRead ==
    /\ xpc = "read"
    /\ IF xcapPos < xreq.video.frames
         THEN LET c == Append(chunk, [idx |-> frame_idx,
                                      frame |-> [src |-> xcapPos, regions |-> <<>>]])
              IN /\ chunk' = c
                 /\ frame_idx' = frame_idx + 1
                 /\ xcapPos' = xcapPos + 1
                 /\ IF ChunkFull(c)
                      THEN /\ xpc' = "map_loop"
                           /\ mapState' = Submitted(c)
                      ELSE UNCHANGED <<xpc, mapState>>
         ELSE /\ IF NeedsFlush(chunk)
                   THEN /\ xpc' = "map_flush"
                        /\ mapState' = Submitted(chunk)
                   ELSE /\ xpc' = "release"
                        /\ UNCHANGED mapState
              /\ UNCHANGED <<chunk, frame_idx, xcapPos>>
    /\ UNCHANGED <<xreq, tracks_map, outFile, xresp, xfile, xsend, xcount, tpVars, fnVars, poolVars,
                   threadVars, execVars, genVars>>

\* A worker of the shared executor (max_workers = DETECTOR_POOL_SIZE,
\* main.py:397) takes the oldest queued task of the map.
BlurStart(i) ==
    /\ xpc \in {"map_loop", "map_flush"}
    /\ i \in 1..Len(mapState)
    /\ mapState[i] = "queued"
    /\ \A j \in 1..(i - 1) : mapState[j] # "queued"
    /\ Cardinality({j \in 1..Len(mapState) : mapState[j] = "running"})
         < DETECTOR_POOL_SIZE
    /\ mapState' = [mapState EXCEPT ![i] = "running"]
    /\ UNCHANGED <<xpc, xreq, tracks_map, frame_idx, xcapPos, chunk, outFile,
                   xresp, xfile, xsend, xcount, tpVars, fnVars, poolVars, threadVars, execVars, genVars>>

\* main.py:652-675: a running task ends; blur_frame has changed its frame in
\* place, or has raised.
BlurFinish(i) ==
    /\ xpc \in {"map_loop", "map_flush"}
    /\ i \in 1..Len(mapState)
    /\ mapState[i] = "running"
    /\ LET b == blur_frame(chunk[i], tracks_map, xreq)
       IN /\ chunk' = [chunk EXCEPT ![i].frame = b.frame]
          /\ mapState' = [mapState EXCEPT ![i] = IF b.raised THEN "raised" ELSE "done"]
    /\ UNCHANGED <<xpc, xreq, tracks_map, frame_idx, xcapPos, outFile,
                   xresp, xfile, xsend, xcount, tpVars, fnVars, poolVars, threadVars, execVars, genVars>>

\* main.py:689, 697: processed.sort(key=lambda x: x[0]), a stable sort.
RECURSIVE InsertByIdx(_, _)
InsertByIdx(s, e) ==
    IF s = <<>> THEN <<e>>
    ELSE IF s[Len(s)][1] <= e[1] THEN Append(s, e)
    ELSE Append(InsertByIdx(SubSeq(s, 1, Len(s) - 1), e), s[Len(s)])

RECURSIVE SortByIdx(_)
SortByIdx(s) ==
    IF s = <<>> THEN <<>>
    ELSE InsertByIdx(SortByIdx(SubSeq(s, 1, Len(s) - 1)), s[Len(s)])

\* main.py:688, 696: list(pool.map(blur_frame, chunk)) yields the results in
\* the order of the chunk, whatever the order the tasks ended in.
MapResults(c) == [i \in 1..Len(c) |-> <<c[i].idx, c[i].frame>>]

\* main.py:692: "chunk = []"
AfterWriteKeep(c) == c

AfterWrite(c) == <<>>

\* main.py:688-692, 696-699: every task of the map has ended without
\* raising; the results are sorted and written.
ExportWrite ==
    /\ xpc \in {"map_loop", "map_flush"}
    /\ \A i \in 1..Len(mapState) : mapState[i] = "done"
    /\ LET processed == SortByIdx(MapResults(chunk))
       IN outFile' = outFile \o [i \in 1..Len(processed) |-> processed[i][2]]
    /\ IF xpc = "map_loop"
         THEN /\ chunk' = AfterWrite(chunk)
              /\ xpc' = "read"
         ELSE /\ chunk' = chunk
              /\ xpc' = "release"
    /\ mapState' = <<>>
    /\ UNCHANGED <<xreq, tracks_map, frame_idx, xcapPos, xresp, xfile, xsend, xcount, tpVars, fnVars,
                   poolVars, threadVars, execVars, genVars>>

\* main.py:688, 696, 713-715: list() meets the result of a task that raised
\* (those before it have ended); the handler answers 500.
ExportFail ==
    /\ xpc \in {"map_loop", "map_flush"}
    /\ \E i \in 1..Len(mapState) :
         /\ mapState[i] = "raised"
         /\ \A j \in 1..(i - 1) : mapState[j] = "done"
    /\ xpc' = "failed"
    /\ xresp' = 500
    /\ UNCHANGED <<xreq, tracks_map, frame_idx, xcapPos, chunk, mapState,
                   outFile, xfile, xsend, xcount, tpVars, fnVars, poolVars, threadVars, execVars, genVars>>

\* main.py:701-709: release of the capture and the writer, FileResponse.
ExportRelease ==
    /\ xpc = "release"
    /\ xpc' = "done"
    /\ xresp' = 200
    /\ xfile' = "closed"
    /\ xsend' = Append(xsend, [own |-> outFile, got |-> <<>>,
                               ended |-> outFile = <<>>])
    /\ UNCHANGED <<xreq, tracks_map, frame_idx, xcapPos, chunk, mapState,
                   outFile, xcount, tpVars, fnVars, poolVars, threadVars, execVars, genVars>>

\* main.py:705-709: the event loop, free of handlers, sends the next part of
\* the i-th FileResponse: it reads the file at output_path as it is now, up
\* to the length the response announced or to the end of the file.
SendChunk(i) ==
    /\ xpc \in {"done", "failed"}
    /\ i \in 1..Len(xsend)
    /\ ~xsend[i].ended
    /\ LET s == xsend[i]
           n == Len(s.got)
       IN IF n < Len(outFile)
            THEN xsend' = [xsend EXCEPT ![i] =
                             [s EXCEPT !.got = Append(s.got, outFile[n + 1]),
                                       !.ended = (n + 1 = Len(s.own))]]
            ELSE xsend' = [xsend EXCEPT ![i] = [s EXCEPT !.ended = TRUE]]
    /\ UNCHANGED <<xpc, xreq, tracks_map, frame_idx, xcapPos, chunk, mapState,
                   outFile, xresp, xfile, xcount, tpVars, fnVars, poolVars, threadVars,
                   execVars, genVars>>

\* ------------------------------------------------------------------ functions

\* Longest track given to find_detection_for_frame.
MaxTrackLen == 3

\* What a function specification holds before and after the call.
NotCalled == [called |-> FALSE, value |-> NoDetection]
Returned(v) == [called |-> TRUE, value |-> v]

\* Frame indexes of the stored detections: neighbours, a gap of 3, a gap of
\* max_gap and one of max_gap + 1.
FrameIndexes == {0, 1, 4, 4 + max_gap, 5 + max_gap}

StoredDetection(i) ==
    [frameIndex |-> i,
     bbox  |-> <<(i * i) % 11, (3 * i) % 7, 4 + (i % 3), 5 + ((2 * i) % 4)>>,
     score |-> 50 + ((7 * i) % 40),
     den   |-> 1]

\* Arguments of find_detection_for_frame: every list of at most MaxTrackLen
\* stored detections (sorted or not) and every frame index around them.
FindInputs ==
    {[frames |-> fs, frame_idx |-> q, sample_rate |-> 1] :
        fs \in UNION {[1..n -> {StoredDetection(i) : i \in FrameIndexes}] :
                        n \in 0..MaxTrackLen},
        q \in 0..(6 + max_gap)}

FindCall ==
    /\ fnRet = NotCalled
    /\ fnRet' = Returned(find_detection_for_frame(fnArg.frames, fnArg.frame_idx,
                                                  fnArg.sample_rate))
    /\ UNCHANGED <<fnArg, tpVars, expVars, poolVars, threadVars, execVars, genVars>>

\* Arguments of blur_frame: a frame of index 0 or 1 and one track of two
\* detections, at 0 and 2, whose box lies inside, across or outside the
\* frame; every padding from 0 to 2.
BlurInputs ==
    {[item |-> [idx |-> q, frame |-> [src |-> q, regions |-> <<>>]],
      tmap |-> <<[id |-> 1,
                  track |-> [id |-> 1,
                             frames |-> <<StoredBox(0, <<bx, by, bw, bh>>),
                                          StoredBox(2, <<bx + 1, by + 3, bw + 1, bh>>)>>]]>>,
      req  |-> [video |-> [exists |-> TRUE, frames |-> 3, width |-> FrameWidth,
                           height |-> FrameHeight],
                tracks |-> <<>>, selectedTrackIds |-> {1},
                padding |-> p, blurAmount |-> 2, sampleRate |-> 1]] :
        q \in {0, 1}, p \in 0..(2 * PadDen),
        bx \in {-3, 0, 5, FrameWidth - 1, FrameWidth + 2},
        by \in {-3, 0, FrameHeight - 1, FrameHeight + 2},
        bw \in {0, 1, 4, FrameWidth + 2},
        bh \in {0, 1, 4, FrameHeight + 4}}

BlurCall ==
    /\ fnRet = NotCalled
    /\ fnRet' = Returned(blur_frame(fnArg.item, fnArg.tmap, fnArg.req))
    /\ UNCHANGED <<fnArg, tpVars, expVars, poolVars, threadVars, execVars, genVars>>

\* ------------------------------------------------------------------ system

ServerInit ==
    /\ pool = <<>>
    /\ sem = 0
    /\ semGen = 0
    /\ created = 0
    /\ started = FALSE
    /\ gfdPc = "idle"
    /\ gfdRet = 0
    /\ gfdCalls = 0
    /\ pc = [t \in Threads |-> "idle"]
    /\ det = [t \in Threads |-> 0]
    /\ out = [t \in Threads |-> NoOutcome]
    /\ calls = [t \in RequestThreads |-> 0]
    /\ task = [t \in Workers |-> 0]
    /\ workq = <<>>
    /\ fut = <<>>
    /\ batched = 0
    /\ gpc = "none"
    /\ video = [opens |-> FALSE, frameCount |-> 0, frames |-> 0]
    /\ sample_rate = 1
    /\ total_steps = 0
    /\ completed_steps = 0
    /\ target_idx = 0
    /\ current_frame = 0
    /\ capPos = 0
    /\ reads = 0
    /\ pending_futures = <<>>
    /\ drainPos = 1
    /\ results = <<>>
    /\ stream = <<>>

\* The exporter has no request, the function specifications no call.
ExportInit ==
    /\ xpc = "none"
    /\ xreq = [video |-> [exists |-> FALSE, frames |-> 0, width |-> 0, height |-> 0],
               tracks |-> <<>>, selectedTrackIds |-> {},
               padding |-> 0, blurAmount |-> 2, sampleRate |-> 1]
    /\ tracks_map = <<>>
    /\ frame_idx = 0
    /\ xcapPos = 0
    /\ chunk = <<>>
    /\ mapState = <<>>
    /\ outFile = <<>>
    /\ xresp = 0
    /\ xfile = "absent"
    /\ xsend = <<>>
    /\ xcount = 0

\* main.py:391: _thread_pool is None until the first call.
ThreadPoolInit ==
    /\ thread_pool = 0
    /\ tpCreated = 0
    /\ tpPc = [c \in PoolCallers |-> "idle"]
    /\ tpRet = [c \in PoolCallers |-> 0]

Init ==
    /\ ServerInit
    /\ ExportInit
    /\ ThreadPoolInit
    /\ fnArg = <<>>
    /\ fnRet = NotCalled

\* The steps of one call of _run_detection.
DetectionStep(t) ==
    \/ Acquire(t)
    \/ Pop(t)
    \/ Detect(t)
    \/ ExitAppend(t)
    \/ ExitRelease(t)
    \/ Return(t)

GenStep ==
    \/ GenOpen
    \/ GenLoop
    \/ GenDrain
    \/ GenFinal
    \/ GenEnd

\* One /detect-video request served by the executor's workers.
Next ==
    \/ Startup
    \/ GfdReturn
    \/ \E t \in Workers : WorkerTake(t) \/ DetectionStep(t)
    \/ Request
    \/ GenStep
    \/ GenClose

Spec == Init /\ [][Next]_vars

\* Spec under fair scheduling: the thread that runs generate() goes on while
\* it can (the client reads each record), lifespan startup completes, and a
\* worker that can take a queued item or a step of its detection call does.
FairSpec ==
    /\ Spec
    /\ WF_vars(Startup)
    /\ WF_vars(GfdReturn)
    /\ WF_vars(GenStep)
    /\ \A t \in Workers : WF_vars(WorkerTake(t) \/ DetectionStep(t))

\* The detector pool under /detect and /detect-batch requests: the workers
\* and the request thread all run detections.
NextPool ==
    \/ Startup
    \/ GfdReturn
    \/ BatchSubmit
    \/ \E t \in RequestThreads : DirectCall(t)
    \/ \E t \in Workers : WorkerTake(t)
    \/ \E t \in Threads : DetectionStep(t)

SpecPool == Init /\ [][NextPool]_vars

\* As SpecPool, with get_face_detector also called while the server runs.
NextReinit == NextPool \/ LaterCall

SpecReinit == Init /\ [][NextReinit]_vars

\* SpecPool under fair scheduling: a thread that can take a step of its
\* detection call (or a worker that can take a queued item) eventually does.
FairSpecPool ==
    /\ SpecPool
    /\ \A t \in Threads : WF_vars(DetectionStep(t))
    /\ \A t \in Workers : WF_vars(WorkerTake(t))

\* One POST /export request: the handler and the blur_frame tasks it hands
\* to the executor.
NextExport ==
    \/ ExportStart
    \/ ExportRead
    \/ \E i \in 1..chunk_size : BlurStart(i)
    \/ \E i \in 1..chunk_size : BlurFinish(i)
    \/ ExportWrite
    \/ ExportFail
    \/ ExportRelease

SpecExport == Init /\ [][NextExport]_vars

\* Two POST /export requests for the same video, and the sending of their
\* responses by the event loop between the handlers.
NextRace ==
    \/ NextExport
    \/ ExportAgain
    \/ \E i \in 1..MaxExports : SendChunk(i)

SpecRace == Init /\ [][NextRace]_vars

\* Concurrent calls of get_thread_pool.
NextThreadPool ==
    \E c \in PoolCallers : TpCall(c) \/ TpTest(c) \/ TpCreate(c) \/ TpReturn(c)

SpecThreadPool == Init /\ [][NextThreadPool]_vars

\* find_detection_for_frame applied to each of FindInputs.
InitFind ==
    /\ ServerInit
    /\ ExportInit
    /\ ThreadPoolInit
    /\ fnArg \in FindInputs
    /\ fnRet = NotCalled

SpecFind == InitFind /\ [][FindCall]_vars

\* blur_frame applied to each of BlurInputs.
InitBlur ==
    /\ ServerInit
    /\ ExportInit
    /\ ThreadPoolInit
    /\ fnArg \in BlurInputs
    /\ fnRet = NotCalled

SpecBlur == InitBlur /\ [][BlurCall]_vars

\* ------------------------------------------------------------------ claims

Leased == {t \in Threads : det[t] # 0}

\* Threads between the acquire of __enter__ and the release of __exit__.
PermitHolders == {t \in Threads : pc[t] \in {"pop", "detect", "append", "release"}}

AllIdle == \A t \in Threads : pc[t] = "idle"

PoolIntact ==
    /\ Len(pool) = DETECTOR_POOL_SIZE
    /\ SeqToSet(pool) = 1..DETECTOR_POOL_SIZE

\* C1 (I2, bounded concurrency): in every reachable state the number of
\* detectors leased (popped by __enter__, not yet given back by __exit__) is
\* at most DETECTOR_POOL_SIZE.
C1_BoundedConcurrency == Cardinality(Leased) <= DETECTOR_POOL_SIZE

\* All detectors are leased while one more thread waits for a permit.
C1_Witness ==
    /\ Cardinality(Leased) = DETECTOR_POOL_SIZE
    /\ \E t \in Threads : pc[t] = "acquire"

\* C2 (I1, detector conservation): whenever every started detection call has
\* finished, normally or by raising, the free list holds exactly the
\* DETECTOR_POOL_SIZE detectors made at initialisation, each once.
C2_Conservation == (started /\ AllIdle) => PoolIntact

\* Every call the bounds allow has been made and has finished, one of them by
\* raising, and the free list is in another order than it was made in.
C2_Witness ==
    /\ AllIdle
    /\ workq = <<>>
    /\ batched = MaxBatchFrames
    /\ \A t \in RequestThreads : calls[t] = MaxDirectCalls /\ out[t].kind = "raised"
    /\ pool # NewPool(0).pool

\* C3 (exclusive ownership): a detector handed to a caller, by a lease or as
\* the return value of get_face_detector, is not in the free list and is held
\* by nobody else.
C3_ExclusiveOwnership ==
    /\ \A t \in Threads : det[t] # 0 =>
          /\ det[t] \notin SeqToSet(pool)
          /\ \A u \in Threads \ {t} : det[u] # det[t]
    /\ gfdRet # 0 =>
          /\ gfdRet \notin SeqToSet(pool)
          /\ \A t \in Threads : det[t] # gfdRet

\* The part of C3 about leases alone.
LeaseExclusive ==
    \A t \in Threads : det[t] # 0 =>
        /\ det[t] \notin SeqToSet(pool)
        /\ \A u \in Threads \ {t} : det[u] # det[t]

\* C4 (idempotent initialisation): a call of get_face_detector made after the
\* first one creates no detector, does not replace the semaphore and leaves
\* the free list and the permits as they are, whatever is leased.
C4_LaterCallIsNoOp ==
    [][(started /\ gfdPc = "idle" /\ gfdPc' = "return") =>
          /\ created' = created
          /\ semGen' = semGen
          /\ pool' = pool
          /\ sem' = sem]_vars

\* C5 (release on error): once a detection call has raised and the failure
\* is on its way to, or has reached, the caller of detect_faces, the thread
\* holds no detector, every permit is either free or held by a call still
\* inside its lease, and no detector is missing from the pool.
C5_ReleaseOnError ==
    \A t \in Threads :
        (out[t].kind = "raised" /\ pc[t] \in {"return", "idle"}) =>
            /\ det[t] = 0
            /\ sem + Cardinality(PermitHolders) = DETECTOR_POOL_SIZE
            /\ Len(pool) + Cardinality(Leased) = DETECTOR_POOL_SIZE
            /\ SeqToSet(pool) \cup {det[u] : u \in Leased} = 1..DETECTOR_POOL_SIZE

\* The caller of detect_faces has received the failure; the pool is whole.
C5_Witness ==
    \E t \in RequestThreads :
        /\ pc[t] = "idle"
        /\ out[t].kind = "raised"
        /\ AllIdle
        /\ sem = DETECTOR_POOL_SIZE
        /\ PoolIntact

\* C6 (lease blocking and liveness): a lease passes its acquire only when
\* fewer than DETECTOR_POOL_SIZE other leases are outstanding, so the
\* (N+1)-th waits for a release; and under fair scheduling every lease that
\* waits eventually holds a detector.
C6_BlockingAndLiveness ==
    /\ [][\A t \in Threads :
            (pc[t] = "acquire" /\ pc'[t] = "pop") =>
                Cardinality(PermitHolders \ {t}) < DETECTOR_POOL_SIZE]_vars
    /\ \A t \in Threads : (pc[t] = "acquire") ~> (det[t] # 0)

\* DETECTOR_POOL_SIZE leases are outstanding, no permit is left, and one more
\* lease waits in its acquire.
C6_Witness ==
    /\ Cardinality(PermitHolders) = DETECTOR_POOL_SIZE
    /\ sem = 0
    /\ \E t \in Threads : pc[t] = "acquire"


Terminal(r) == r.type \in {"results", "error"}

\* C7 (I3, progress monotonicity): in the stream of one analysis no progress
\* value exceeds 100 (1000 tenths) and each is at least the one before it.
C7_ProgressMonotone ==
    \A i \in 1..Len(stream) :
        stream[i].type = "progress" =>
            /\ stream[i].progress <= 1000
            /\ \A j \in 1..(i - 1) :
                  stream[j].type = "progress" => stream[j].progress <= stream[i].progress

\* C8 (I4, terminal record): a stream read to its end holds exactly one
\* record whose type is "results" or "error", and it is the last one.
C8_TerminalRecord ==
    gpc = "done" =>
        /\ stream # <<>>
        /\ Terminal(stream[Len(stream)])
        /\ \A i \in 1..(Len(stream) - 1) : ~Terminal(stream[i])

\* C9 (cancellation): the step that closes the generator and every step after
\* it yields no record and submits no detection; and once it is closed, a
\* detection that is past the append of its __exit__ holds no detector, and
\* the detectors are all either leased by a running detection or in the pool.
C9_Cancellation ==
    /\ [][gpc' = "closed" =>
            /\ stream' = stream
            /\ Len(fut') = Len(fut)
            /\ Len(workq') <= Len(workq)]_vars
    /\ [](gpc = "closed" =>
            /\ \A t \in Threads : pc[t] \in {"release", "return", "idle"} => det[t] = 0
            /\ Len(pool) + Cardinality(Leased) = DETECTOR_POOL_SIZE
            /\ SeqToSet(pool) \cup {det[u] : u \in Leased} = 1..DETECTOR_POOL_SIZE
            /\ AllIdle => PoolIntact)

\* The consumer left after a progress record, a detection submitted before
\* that still holds its detector and another still waits in the queue.
C9_Witness ==
    /\ gpc = "closed"
    /\ stream # <<>>
    /\ stream[Len(stream)].type = "progress"
    /\ Leased # {}
    /\ workq # <<>>

\* What the results record must hold, from the futures in submission order:
\* one FrameDetection for each frame whose detection returned faces.
RECURSIVE ExpectedResults(_)
ExpectedResults(k) ==
    IF k = 0 THEN <<>>
    ELSE IF fut[k].state = "ok" /\ FrameFaces(fut[k].frame) # <<>>
      THEN Append(ExpectedResults(k - 1),
                  [frameIndex |-> fut[k].idx, faces |-> FrameFaces(fut[k].frame)])
      ELSE ExpectedResults(k - 1)

\* C10 (per-frame failure isolation): when the loop and the final drain are
\* over, whatever detections raised, the stream ends with a results record and
\* holds no error record, the record has exactly the detections of the frames
\* that did not fail and showed faces, and every submitted frame, failed or
\* not, counted as one completed step.
C10_FailureIsolation ==
    gpc = "y_results" =>
        /\ stream[Len(stream)] = ResultsRecord(ExpectedResults(Len(fut)))
        /\ \A i \in 1..Len(stream) : stream[i].type # "error"
        /\ completed_steps = Len(fut)

\* A frame drained inside the loop and a frame drained at the end both failed,
\* and the results record still reports other frames.
C10_Witness ==
    /\ gpc = "y_results"
    /\ Len(fut) > MAX_PENDING_DETECTIONS
    /\ fut[1].state = "raised"
    /\ fut[Len(fut)].state = "raised"
    /\ stream[Len(stream)].results # <<>>


\* Futures submitted and not yet drained: the final drain walks
\* pending_futures without popping it.
InFlight == Len(pending_futures) - (drainPos - 1)

\* C11 (bounded in-flight work): at every instant at most MAX_PENDING = 2 N
\* futures are submitted and not drained, and the read loop reads and submits
\* a frame only when fewer than 2 N are.
C11_BoundedInFlight ==
    /\ InFlight <= 2 * DETECTOR_POOL_SIZE
    /\ gpc = "loop" => InFlight < 2 * DETECTOR_POOL_SIZE

\* The queue is full right after a submission, before the drain.
C11_Witness ==
    /\ gpc = "drain"
    /\ Len(pending_futures) = 2 * DETECTOR_POOL_SIZE

\* ceil(a / b) for a >= 0, b > 0
CeilDiv(a, b) == (a + b - 1) \div b

\* C12 (sampled indices): for a reported frame count F > 0 and a stride
\* K >= 1 the k-th submitted frame is the source frame (k - 1) K, tagged with
\* that index, below F; when the loop is over these are all the multiples of
\* K below F that decode; every frameIndex of results is such a multiple.
C12_SampledIndices ==
    (video.opens /\ video.frameCount > 0 /\ sample_rate >= 1) =>
        /\ \A k \in 1..Len(fut) :
              /\ fut[k].idx = (k - 1) * sample_rate
              /\ fut[k].frame = fut[k].idx
              /\ fut[k].idx < video.frameCount
        /\ gpc \in {"final", "y_final", "y_results", "done"} =>
              Len(fut) = CeilDiv(Min(video.frameCount, video.frames), sample_rate)
        /\ \A i \in 1..Len(results) :
              /\ results[i].frameIndex % sample_rate = 0
              /\ results[i].frameIndex < video.frameCount

\* A stride of 2 over a 4-frame video: frames 0 and 2, both reported.
C12_Witness ==
    /\ gpc = "y_results"
    /\ sample_rate = 2
    /\ video.frameCount = MaxFrames
    /\ Len(fut) >= 2
    /\ Len(results) >= 2

\* The stride of a request for sample_rate, clamped into [1, 30].
ClampedStride(rate) == IF rate < 1 THEN 1 ELSE IF rate > 30 THEN 30 ELSE rate

\* C13 (stride clamping): the analyzer visits the frames of the stride
\* sample_rate clamped into [1, 30]: a file that opens is analysed (the
\* stream has no error record) and its k-th submitted frame is the source
\* frame (k - 1) * ClampedStride(sample_rate).
C13_StrideClamped ==
    video.opens =>
        /\ \A i \in 1..Len(stream) : stream[i].type # "error"
        /\ \A k \in 1..Len(fut) :
              /\ fut[k].idx = (k - 1) * ClampedStride(sample_rate)
              /\ fut[k].frame = fut[k].idx

NumProgress ==
    Cardinality({i \in 1..Len(stream) : stream[i].type = "progress"})

\* C14 (progress is always reported): each drained future has its progress
\* record, whatever frame count the container reports (the stride being a
\* valid one), so a stream that reaches its results record after decoding a
\* frame has a progress record before it.
C14_ProgressReported ==
    (video.opens /\ sample_rate >= 1) =>
        /\ gpc # "closed" => NumProgress = completed_steps
        /\ (gpc = "y_results" /\ Len(fut) >= 1) => NumProgress >= 1

\* C15 (export ordering, I5): the k-th frame written is the processed frame of
\* source index k (counted from 0), whatever order the tasks of a chunk end in.
C15_ExportOrdering ==
    \A k \in 1..Len(outFile) : outFile[k].src = k - 1

\* A first chunk is written and the tasks of the last one end out of order.
C15_Witness ==
    /\ xpc = "map_flush"
    /\ Len(outFile) = chunk_size
    /\ \E i, j \in 1..Len(mapState) :
         i < j /\ mapState[i] = "running" /\ mapState[j] = "done"

\* C16 (output length, I6): a successful export has written as many frames as
\* the source holds; the source may be empty, shorter than a chunk, a whole
\* number of chunks or not.
C16_OutputLength ==
    /\ Len(outFile) <= xreq.video.frames
    /\ (xpc = "done" /\ xresp = 200) => Len(outFile) = xreq.video.frames

\* An export of a full chunk and a partial one has ended.
C16_Witness ==
    /\ xpc = "done"
    /\ xresp = 200
    /\ Len(outFile) = MaxExportFrames
    /\ MaxExportFrames % chunk_size # 0

\* The rectangles blur_frame pixelates in the frame of index idx for the
\* track t alone (none for a detection whose bbox is malformed).
TrackRegions(t, idx, req) ==
    LET d == find_detection_for_frame(t.frames, idx, req.sampleRate)
    IN IF d = NoDetection \/ Len(d.bbox) # 4 THEN <<>>
       ELSE Pixelate([src |-> idx, regions |-> <<>>],
                     RegionOf(d, req.padding, req.video.width, req.video.height),
                     req.blurAmount).regions

\* C17 (unselected tracks have no effect): every rectangle pixelated in a
\* written frame is the rectangle of a track whose id is selected; with an
\* empty selection no frame is changed.
C17_UnselectedNoEffect ==
    \A k \in 1..Len(outFile) :
        /\ \A n \in 1..Len(outFile[k].regions) :
             \E i \in 1..Len(xreq.tracks) :
                 /\ xreq.tracks[i].id \in xreq.selectedTrackIds
                 /\ outFile[k].regions[n]
                      \in SeqToSet(TrackRegions(xreq.tracks[i], k - 1, xreq))
        /\ xreq.selectedTrackIds = {} => outFile[k].regions = <<>>

\* A written frame in which an unselected track has a detection, whose
\* rectangle is not pixelated, next to a frame that a selected track changed.
C17_Witness ==
    /\ xpc = "done"
    /\ xresp = 200
    /\ \E k \in 1..Len(outFile) : outFile[k].regions # <<>>
    /\ \E k \in 1..Len(outFile) : \E i \in 1..Len(xreq.tracks) :
         /\ xreq.tracks[i].id \notin xreq.selectedTrackIds
         /\ TrackRegions(xreq.tracks[i], k - 1, xreq) # <<>>
         /\ SeqToSet(TrackRegions(xreq.tracks[i], k - 1, xreq))
              \cap SeqToSet(outFile[k].regions) = {}

\* C18 (every selected track is pixelated): in every written frame, the
\* rectangle of each track of the request whose id is selected is pixelated,
\* two tracks of the same id included.
C18_SelectedPixelated ==
    \A k \in 1..Len(outFile) : \A i \in 1..Len(xreq.tracks) :
        xreq.tracks[i].id \in xreq.selectedTrackIds =>
            SeqToSet(TrackRegions(xreq.tracks[i], k - 1, xreq))
                \subseteq SeqToSet(outFile[k].regions)

\* C19 (in-bounds pixelation): for a detection of width and height >= 0, any
\* x and y and a padding in [0, 2], every rectangle blur_frame pixelates has
\* 0 <= x, 0 <= y, w >= 1, h >= 1, x + w <= width and y + h <= height.
C19_InBounds ==
    fnRet.called =>
        /\ ~fnRet.value.raised
        /\ \A n \in 1..Len(fnRet.value.frame.regions) :
             LET r == fnRet.value.frame.regions[n]
             IN /\ 0 <= r.x /\ 0 <= r.y
                /\ r.w >= 1 /\ r.h >= 1
                /\ r.x + r.w <= fnArg.req.video.width
                /\ r.y + r.h <= fnArg.req.video.height

\* A padded box that reaches over the right and bottom edges is pixelated up
\* to the edges.
C19_Witness ==
    /\ fnRet.called
    /\ fnArg.req.padding > 0
    /\ \E n \in 1..Len(fnRet.value.frame.regions) :
         LET r == fnRet.value.frame.regions[n]
         IN /\ r.x > 0 /\ r.y > 0
            /\ r.x + r.w = fnArg.req.video.width
            /\ r.y + r.h = fnArg.req.video.height
            /\ fnArg.tmap[1].track.frames[1].bbox[1]
                 + fnArg.tmap[1].track.frames[1].bbox[3] > fnArg.req.video.width

StrictlyIncreasing(frames) ==
    \A i, j \in 1..Len(frames) : i < j => frames[i].frameIndex < frames[j].frameIndex

\* C20 (exact hit, P2): for frames of strictly increasing frameIndex and a
\* frame index equal to one of them, find_detection_for_frame returns that
\* stored frame.
C20_ExactHit ==
    (fnRet.called /\ StrictlyIncreasing(fnArg.frames)) =>
        \A i \in 1..Len(fnArg.frames) :
            fnArg.frames[i].frameIndex = fnArg.frame_idx =>
                fnRet.value = fnArg.frames[i]

\* The hit is the last of three frames, behind a gap larger than max_gap.
C20_Witness ==
    /\ fnRet.called
    /\ StrictlyIncreasing(fnArg.frames)
    /\ Len(fnArg.frames) = 3
    /\ fnArg.frames[3].frameIndex = fnArg.frame_idx
    /\ fnArg.frames[3].frameIndex - fnArg.frames[2].frameIndex > max_gap
    /\ fnRet.value = fnArg.frames[3]

\* C21 (linear interpolation, P3): for a track of two frames at a < b with
\* b - a <= 20 and every k in 0..(b - a), the detection returned at a + k has
\* each bbox component equal to p + k / (b - a) * (n - p) and a score blended
\* with the same weight (compared as fractions, cross-multiplied); the gap
\* of exactly 20 is interpolated.
C21_LinearInterpolation ==
    (/\ fnRet.called
     /\ Len(fnArg.frames) = 2
     /\ fnArg.frames[1].frameIndex < fnArg.frames[2].frameIndex
     /\ fnArg.frames[2].frameIndex - fnArg.frames[1].frameIndex <= 20
     /\ fnArg.frame_idx >= fnArg.frames[1].frameIndex
     /\ fnArg.frame_idx <= fnArg.frames[2].frameIndex) =>
        LET p   == fnArg.frames[1]
            n   == fnArg.frames[2]
            gap == n.frameIndex - p.frameIndex
            k   == fnArg.frame_idx - p.frameIndex
            v   == fnRet.value
        IN /\ v # NoDetection
           /\ v.frameIndex = fnArg.frame_idx
           /\ \A i \in 1..4 :
                 v.bbox[i] * gap = v.den * (p.bbox[i] * gap + k * (n.bbox[i] - p.bbox[i]))
           /\ v.score * gap = v.den * (p.score * (gap - k) + n.score * k)

\* A point strictly inside a gap of exactly 20 is blended.
C21_Witness ==
    /\ fnRet.called
    /\ Len(fnArg.frames) = 2
    /\ fnArg.frames[2].frameIndex - fnArg.frames[1].frameIndex = 20
    /\ fnArg.frame_idx = fnArg.frames[1].frameIndex + 7
    /\ fnRet.value.den = 20

\* C22 (gap suppression): for a sorted track and a query strictly between
\* two consecutive stored frames more than 20 apart, the result is None.
C22_GapSuppression ==
    (fnRet.called /\ StrictlyIncreasing(fnArg.frames)) =>
        \A i \in 1..(Len(fnArg.frames) - 1) :
            (/\ fnArg.frames[i + 1].frameIndex - fnArg.frames[i].frameIndex > 20
             /\ fnArg.frames[i].frameIndex < fnArg.frame_idx
             /\ fnArg.frame_idx < fnArg.frames[i + 1].frameIndex) =>
                fnRet.value = NoDetection

\* A query inside a gap of 21 behind an earlier stored frame.
C22_Witness ==
    /\ fnRet.called
    /\ StrictlyIncreasing(fnArg.frames)
    /\ Len(fnArg.frames) = 3
    /\ fnArg.frames[3].frameIndex - fnArg.frames[2].frameIndex = 21
    /\ fnArg.frame_idx = fnArg.frames[2].frameIndex + 1
    /\ fnRet.value = NoDetection

\* C23 (no ghost masks): for a non-empty sorted track and a query before its
\* first or after its last stored frame, the result is None.
C23_NoGhostMasks ==
    (/\ fnRet.called
     /\ fnArg.frames # <<>>
     /\ StrictlyIncreasing(fnArg.frames)
     /\ \/ fnArg.frame_idx < fnArg.frames[1].frameIndex
        \/ fnArg.frame_idx > fnArg.frames[Len(fnArg.frames)].frameIndex) =>
        fnRet.value = NoDetection

\* The query one frame after the last stored frame of a track of two.
C23_Witness ==
    /\ fnRet.called
    /\ Len(fnArg.frames) = 2
    /\ StrictlyIncreasing(fnArg.frames)
    /\ fnArg.frame_idx = fnArg.frames[2].frameIndex + 1
    /\ fnRet.value = NoDetection

\* The detection blur_frame works on in a call of SpecBlur.
BlurDetection ==
    find_detection_for_frame(fnArg.tmap[1].track.frames, fnArg.item.idx,
                             fnArg.req.sampleRate)

\* C29 (the pixelated region stays inside the padded box): for a box of
\* width and height >= 0 and a padding in [0, 2], every rectangle blur_frame
\* pixelates lies in [ox - ow p, ox + ow (1 + p)] x [oy - oh p, oy + oh (1 + p)]
\* (its left and top edges up to the truncation to a whole pixel), and a
\* padded box that lies outside the frame pixelates nothing. Fractions are
\* compared cross-multiplied by q = den * PadDen.
C29_InsidePaddedBox ==
    fnRet.called =>
        LET d  == BlurDetection
            pd == fnArg.req.padding
            q  == d.den * PadDen
            left   == d.bbox[1] * PadDen - d.bbox[3] * pd
            right  == d.bbox[1] * PadDen + d.bbox[3] * (PadDen + pd)
            top    == d.bbox[2] * PadDen - d.bbox[4] * pd
            bottom == d.bbox[2] * PadDen + d.bbox[4] * (PadDen + pd)
        IN \A n \in 1..Len(fnRet.value.frame.regions) :
             LET r == fnRet.value.frame.regions[n]
             IN /\ r.x * q > left - q
                /\ r.y * q > top - q
                /\ (r.x + r.w) * q <= right
                /\ (r.y + r.h) * q <= bottom
                /\ right > 0
                /\ bottom > 0

\* C24 (empty tracks are rejected): an export request with a track whose
\* frames list is empty is answered with an error and writes no output.
C24_EmptyTrackRejected ==
    (xcount > 0 /\ \E i \in 1..Len(xreq.tracks) : xreq.tracks[i].frames = <<>>) =>
        /\ xfile = "absent"
        /\ outFile = <<>>
        /\ xpc = "done" => xresp >= 400

\* C25 (clean abort of a failed export): once a request that failed after
\* the writer was opened has returned its error, no output file is left.
C25_CleanAbort ==
    xpc = "failed" => (xresp >= 400 /\ xfile = "absent")

IsPrefix(s, u) == Len(s) <= Len(u) /\ s = SubSeq(u, 1, Len(s))

\* C30 (no export race on the output file): every export response delivers
\* the frames its own request wrote: what has been sent is at every moment
\* the beginning of them, and all of them when the sending has ended.
C30_NoExportRace ==
    \A i \in 1..Len(xsend) :
        /\ IsPrefix(xsend[i].got, xsend[i].own)
        /\ xsend[i].ended => xsend[i].got = xsend[i].own

\* C26 (single shared worker group): whatever the interleaving of concurrent
\* get_thread_pool calls, one executor of N workers is created and every
\* caller is returned that one, so no more than N worker threads exist.
C26_SingleWorkerGroup ==
    /\ tpCreated <= 1
    /\ tpCreated * DETECTOR_POOL_SIZE <= DETECTOR_POOL_SIZE
    /\ \A c, d \in PoolCallers :
         (tpPc[c] = "done" /\ tpPc[d] = "done") => tpRet[c] = tpRet[d]

\* C27 (FIFO drain order): whatever order the detections end in, the entries
\* of results have strictly increasing frameIndex, and the k-th progress
\* record is in the stream only when the detection of the k-th submitted
\* frame has ended.
C27_FifoDrain ==
    /\ \A i, j \in 1..Len(results) :
         i < j => results[i].frameIndex < results[j].frameIndex
    /\ \A k \in 1..NumProgress : k <= Len(fut) /\ FutureDone(fut[k])

\* C28 (analyzer termination): for every video and every sample_rate a
\* client can send, 0 and negative values included, an analysis that has
\* started leaves its loops and reaches its last record (or is closed by the
\* client), detection calls being finite.
C28_Termination ==
    (gpc = "start") ~> (gpc \in {"y_results", "y_error", "y_open_err", "done", "closed"})

====
